---- MODULE Spec2Model ----
(***************************************************************************)
(* A model of superduperdb/container/component.py: the dataclass Component *)
(* (the base of models, watchers, learning tasks ...), its default hooks,  *)
(* its derived properties, its job factory and its identity string.        *)
(*                                                                         *)
(* Python values are tagged records; a dataclass instance is the record    *)
(* [kind |-> "dataclass", cls |-> <class name>, attrs |-> <instance        *)
(* attributes>].  Every method is an operator from its arguments to an     *)
(* effect record [exc, val, self, db, ...] (the exception raised, the      *)
(* value returned, and the objects it was handed as they are when it       *)
(* returns); one action per method applies the operator to the instance.   *)
(***************************************************************************)
EXTENDS Integers, Sequences, FiniteSets, TLC

VARIABLES
    comp,      \* the component instance the operations act on
    db,        \* the DB handed to the hooks and to schedule_jobs
    lists,     \* the list objects created by reads of child_components
    ret,       \* what the last operation was given and what it produced
    lastUid,   \* the unique_id read since version was last assigned
    origin,    \* "constructed" by application code or "deserialized"
    dbLog      \* the lifecycle hooks the coordinator has delivered

vars == <<comp, db, lists, ret, lastUid, origin, dbLog>>

----------------------------------------------------------------------------
(* Bounds *)

MaxVersion == 12    \* the largest |version| tried (two decimal digits)
MaxReads == 2       \* reads of child_components in one behaviour
MaxMetrics == 2     \* longest metrics argument
MaxStrLen == 2      \* longest type_id / identifier given to make_unique_id

----------------------------------------------------------------------------
(* Python values *)

PyNone == [kind |-> "None"]
PyInt(n) == [kind |-> "int", i |-> n]
PyStr(s) == [kind |-> "str", s |-> s]
PyList(items) == [kind |-> "list", items |-> items]
PyDict(map) == [kind |-> "dict", map |-> map]
Obj(cls, attrs) == [kind |-> "dataclass", cls |-> cls, attrs |-> attrs]
ListRef(id) == [kind |-> "listref", id |-> id]

NoAttrs == [n \in {} |-> PyNone]

Unset == "<unset>"

(* The classes: Component itself, which only annotates type_id and declares *)
(* no field, and three subclasses of the kinds its docstring names.        *)
ClassDecl ==
    [ Component    |-> [type_id |-> Unset, fields |-> {}],
      Model        |-> [type_id |-> "model",
                        fields |-> {"identifier", "version"}],
      Watcher      |-> [type_id |-> "watcher",
                        fields |-> {"identifier", "model", "version"}],
      LearningTask |-> [type_id |-> "learning_task",
                        fields |-> {"identifier"}] ]

Classes == DOMAIN ClassDecl

Versions == {-1, 0, MaxVersion}

Identifiers == {"clf1", "a/b"}

(* f'{x}' : str(x) of a string, an int or None *)
Digit(d) ==
    CASE d = 0 -> "0" [] d = 1 -> "1" [] d = 2 -> "2" [] d = 3 -> "3"
      [] d = 4 -> "4" [] d = 5 -> "5" [] d = 6 -> "6" [] d = 7 -> "7"
      [] d = 8 -> "8" [] d = 9 -> "9"

RECURSIVE NatToStr(_)
NatToStr(n) == IF n < 10 THEN Digit(n) ELSE NatToStr(n \div 10) \o Digit(n % 10)

IntToStr(n) == IF n < 0 THEN "-" \o NatToStr(-n) ELSE NatToStr(n)

Format(v) ==
    CASE v.kind = "str" -> v.s
      [] v.kind = "int" -> IntToStr(v.i)
      [] v.kind = "None" -> "None"

(* attribute lookup: the instance's attributes, then the class's *)
HasAttr(obj, name) ==
    \/ name \in DOMAIN obj.attrs
    \/ name = "type_id" /\ ClassDecl[obj.cls].type_id # Unset

GetAttr(obj, name) ==
    IF name \in DOMAIN obj.attrs THEN obj.attrs[name]
    ELSE PyStr(ClassDecl[obj.cls].type_id)

GetAttrDefault(obj, name, default) ==
    IF HasAttr(obj, name) THEN GetAttr(obj, name) ELSE default

----------------------------------------------------------------------------
(* Effects *)

NoExc == ""
VersionNotSet == "Exception: Version not yet set for component uniqueness"
AttributeError(name) == "AttributeError: " \o name

Return(val, self) == [exc |-> NoExc, val |-> val, self |-> self]

Raise(exc, self) == [exc |-> exc, val |-> PyNone, self |-> self]

----------------------------------------------------------------------------
(* The methods of Component *)

on_create(self, database) ==
    [exc |-> NoExc, val |-> PyNone, self |-> self, db |-> database]

on_load_sets_version(self, database) ==
    [exc |-> NoExc, val |-> PyNone,
     self |-> [self EXCEPT !.attrs = ("version" :> PyInt(0)) @@ self.attrs],
     db |-> database]

on_load(self, database) ==
    [exc |-> NoExc, val |-> PyNone, self |-> self, db |-> database]

(* `return []`: every read builds a new list object.  heap is the sequence  *)
(* of the list objects built so far; the value returned is a reference.    *)
child_components_cached(self, heap) ==
    IF heap = <<>>
    THEN [exc |-> NoExc, val |-> ListRef(1), self |-> self,
          heap |-> <<(<<>>)>>]
    ELSE [exc |-> NoExc, val |-> ListRef(1), self |-> self, heap |-> heap]

child_components(self, heap) ==
    [exc |-> NoExc, val |-> ListRef(Len(heap) + 1), self |-> self,
     heap |-> Append(heap, <<>>)]

unique_id_falsy_version(self) ==
    LET version == GetAttrDefault(self, "version", PyNone) IN
    IF version = PyNone \/ version = PyInt(0)
    THEN Raise(VersionNotSet, self)
    ELSE IF ~HasAttr(self, "type_id")
    THEN Raise(AttributeError("type_id"), self)
    ELSE IF ~HasAttr(self, "identifier")
    THEN Raise(AttributeError("identifier"), self)
    ELSE Return(PyStr(Format(GetAttr(self, "type_id")) \o "/"
                        \o Format(GetAttr(self, "identifier")) \o "/"
                        \o Format(GetAttr(self, "version"))),
                self)

unique_id(self) ==
    IF GetAttrDefault(self, "version", PyNone) = PyNone
    THEN Raise(VersionNotSet, self)
    ELSE IF ~HasAttr(self, "type_id")
    THEN Raise(AttributeError("type_id"), self)
    ELSE IF ~HasAttr(self, "identifier")
    THEN Raise(AttributeError("identifier"), self)
    ELSE Return(PyStr(Format(GetAttr(self, "type_id")) \o "/"
                        \o Format(GetAttr(self, "identifier")) \o "/"
                        \o Format(GetAttr(self, "version"))),
                self)

(* dataclasses.asdict: a dataclass instance becomes a dict of its declared *)
(* fields, recursively; lists and dicts are rebuilt element by element;    *)
(* any other value is deep-copied, which leaves it equal.                  *)
RECURSIVE asdict_inner(_)
asdict_inner(obj) ==
    CASE obj.kind = "dataclass" ->
           PyDict([f \in ClassDecl[obj.cls].fields |->
                      asdict_inner(obj.attrs[f])])
      [] obj.kind = "list" ->
           PyList([k \in DOMAIN obj.items |-> asdict_inner(obj.items[k])])
      [] obj.kind = "dict" ->
           PyDict([k \in DOMAIN obj.map |-> asdict_inner(obj.map[k])])
      [] OTHER -> obj

dict_shallow(self) ==
    Return(PyDict([f \in ClassDecl[self.cls].fields |-> self.attrs[f]]),
           self)

dict(self) == Return(asdict_inner(self), self)

ComponentJob(component_identifier, method_name, type_id, kwargs) ==
    [kind |-> "ComponentJob",
     component_identifier |-> component_identifier,
     method_name |-> method_name,
     type_id |-> type_id,
     kwargs |-> kwargs]

create_validation_job_own_type(self, validation_set, metrics) ==
    IF ~HasAttr(self, "identifier")
    THEN Raise(AttributeError("identifier"), self)
    ELSE Return(ComponentJob(GetAttr(self, "identifier"), "predict",
                             ClassDecl[self.cls].type_id,
                             [distributed |-> FALSE,
                              validation_set |-> validation_set,
                              metrics |-> metrics]),
                self)

create_validation_job_by_unique_id(self, validation_set, metrics) ==
    IF unique_id(self).exc # NoExc
    THEN Raise(unique_id(self).exc, self)
    ELSE Return(ComponentJob(unique_id(self).val, "predict", "model",
                             [distributed |-> FALSE,
                              validation_set |-> validation_set,
                              metrics |-> metrics]),
                self)

create_validation_job(self, validation_set, metrics) ==
    IF ~HasAttr(self, "identifier")
    THEN Raise(AttributeError("identifier"), self)
    ELSE Return(ComponentJob(GetAttr(self, "identifier"), "predict", "model",
                             [distributed |-> FALSE,
                              validation_set |-> validation_set,
                              metrics |-> metrics]),
                self)

schedule_jobs_submits(self, database, dependencies, distributed, verbose) ==
    [exc |-> NoExc, val |-> PyList(<<>>), self |-> self,
     db |-> [database EXCEPT !.jobs = Append(@, "job")],
     dependencies |-> dependencies]

schedule_jobs(self, database, dependencies, distributed, verbose) ==
    [exc |-> NoExc, val |-> PyList(<<>>), self |-> self, db |-> database,
     dependencies |-> dependencies]

make_unique_id_of_class(cls, type_id, identifier, version) ==
    IF ClassDecl[cls].type_id = Unset
    THEN [exc |-> AttributeError("type_id"), val |-> PyNone]
    ELSE [exc |-> NoExc,
          val |-> PyStr(ClassDecl[cls].type_id \o "/" \o Format(identifier)
                          \o "/" \o Format(version))]

make_unique_id_unseparated(cls, type_id, identifier, version) ==
    [exc |-> NoExc,
     val |-> PyStr(Format(type_id) \o Format(identifier) \o "/"
                     \o Format(version))]

make_unique_id(cls, type_id, identifier, version) ==
    [exc |-> NoExc,
     val |-> PyStr(Format(type_id) \o "/" \o Format(identifier) \o "/"
                     \o Format(version))]

----------------------------------------------------------------------------
(* The inputs *)

VersionValues == {PyNone} \cup {PyInt(v) : v \in Versions}

Instances ==
    {Obj("Component", NoAttrs)}
    \cup {Obj("Model", [identifier |-> PyStr(i), version |-> v]) :
             i \in Identifiers, v \in VersionValues}
    \cup {Obj("Watcher", [identifier |-> PyStr(i), model |-> m, version |-> v]) :
             i \in {"w1"},
             m \in {PyStr("clf1"),
                    Obj("Model", [identifier |-> PyStr("clf1"),
                                  version |-> PyInt(0)]),
                    PyList(<<Obj("Model", [identifier |-> PyStr("clf1"),
                                           version |-> PyNone])>>)},
             v \in VersionValues}
    \cup {Obj("LearningTask", [identifier |-> PyStr(i)]) : i \in Identifiers}

DBs == {[jobs |-> <<>>], [jobs |-> <<"job0">>]}

Dependencies == {<<>>, <<"job0">>, <<"job0", "job1">>}

ValidationSets == {PyStr("my_dataset"), [kind |-> "Dataset", name |-> "my_dataset"]}

MetricNames == {"accuracy", "f1"}

RECURSIVE SeqsUpTo(_, _)
SeqsUpTo(S, n) ==
    IF n = 0 THEN {<<>>}
    ELSE SeqsUpTo(S, n - 1)
         \cup {Append(q, x) : q \in SeqsUpTo(S, n - 1), x \in S}

Metrics == SeqsUpTo(MetricNames, MaxMetrics)

Alphabet == {"a", "1", "/"}

RECURSIVE StrsUpTo(_)
StrsUpTo(n) ==
    IF n = 0 THEN {""}
    ELSE StrsUpTo(n - 1) \cup {s \o c : s \in StrsUpTo(n - 1), c \in Alphabet}

Strs == StrsUpTo(MaxStrLen)

ShortStrs == StrsUpTo(MaxStrLen - 1)

NoUid == "<none>"

----------------------------------------------------------------------------
(* The state machine *)

InitObject ==
    /\ comp \in Instances
    /\ db \in DBs
    /\ lists = <<>>
    /\ ret = [op |-> "init", exc |-> NoExc, val |-> PyNone]
    /\ lastUid = NoUid
    /\ dbLog = <<>>

Init == InitObject /\ origin = "constructed"

OnCreate ==
    LET eff == on_create(comp, db) IN
    /\ comp' = eff.self
    /\ db' = eff.db
    /\ ret' = [op |-> "on_create", exc |-> eff.exc, val |-> eff.val]
    /\ UNCHANGED <<lists, lastUid, origin, dbLog>>

OnLoad ==
    LET eff == on_load(comp, db) IN
    /\ comp' = eff.self
    /\ db' = eff.db
    /\ ret' = [op |-> "on_load", exc |-> eff.exc, val |-> eff.val]
    /\ UNCHANGED <<lists, lastUid, origin, dbLog>>

ChildComponents ==
    /\ Len(lists) < MaxReads
    /\ LET eff == child_components(comp, lists) IN
       /\ comp' = eff.self
       /\ lists' = eff.heap
       /\ ret' = [op |-> "child_components", exc |-> eff.exc, val |-> eff.val]
    /\ UNCHANGED <<db, lastUid, origin, dbLog>>

(* the caller appends to a list an earlier read of child_components gave it *)
MutateReturned ==
    \E k \in DOMAIN lists :
        /\ lists[k] = <<>>
        /\ lists' = [lists EXCEPT ![k] = Append(@, "x")]
        /\ ret' = [op |-> "list.append", exc |-> NoExc, val |-> PyNone,
                   args |-> [list |-> k]]
        /\ UNCHANGED <<comp, db, lastUid, origin, dbLog>>

UniqueId ==
    LET eff == unique_id(comp) IN
    /\ comp' = eff.self
    /\ ret' = [op |-> "unique_id", exc |-> eff.exc, val |-> eff.val]
    /\ lastUid' = IF eff.exc = NoExc THEN eff.val.s ELSE lastUid
    /\ UNCHANGED <<db, lists, origin, dbLog>>

Dict ==
    LET eff == dict(comp) IN
    /\ comp' = eff.self
    /\ ret' = [op |-> "dict", exc |-> eff.exc, val |-> eff.val]
    /\ UNCHANGED <<db, lists, lastUid, origin, dbLog>>

CreateValidationJob ==
    \E validation_set \in ValidationSets, metrics \in Metrics :
        LET eff == create_validation_job(comp, validation_set, metrics) IN
        /\ comp' = eff.self
        /\ ret' = [op |-> "create_validation_job", exc |-> eff.exc,
                   val |-> eff.val,
                   args |-> [validation_set |-> validation_set,
                             metrics |-> metrics]]
        /\ UNCHANGED <<db, lists, lastUid, origin, dbLog>>

ScheduleJobs ==
    \E dependencies \in Dependencies, distributed \in BOOLEAN,
       verbose \in BOOLEAN :
        LET eff == schedule_jobs(comp, db, dependencies, distributed, verbose) IN
        /\ comp' = eff.self
        /\ db' = eff.db
        /\ ret' = [op |-> "schedule_jobs", exc |-> eff.exc, val |-> eff.val,
                   args |-> [dependencies |-> dependencies,
                             distributed |-> distributed,
                             verbose |-> verbose],
                   dependencies |-> eff.dependencies]
        /\ UNCHANGED <<lists, lastUid, origin, dbLog>>

MakeUniqueIdOn(cls, type_ids, identifiers) ==
    \E type_id \in type_ids, identifier \in identifiers, version \in Versions :
        LET eff == make_unique_id(cls, PyStr(type_id), PyStr(identifier),
                                  PyInt(version)) IN
        /\ ret' = [op |-> "make_unique_id", exc |-> eff.exc, val |-> eff.val,
                   args |-> [cls |-> cls, type_id |-> type_id,
                             identifier |-> identifier, version |-> version]]
        /\ UNCHANGED <<comp, db, lists, lastUid, origin, dbLog>>

MakeUniqueId ==
    \E cls \in {"Component", "Model"} :
        MakeUniqueIdOn(cls, {"model", "watcher"}, Identifiers)

(* the persistence layer, or anyone, assigns self.version *)
AssignVersion ==
    \E v \in VersionValues :
        /\ comp' = [comp EXCEPT !.attrs = ("version" :> v) @@ comp.attrs]
        /\ ret' = [op |-> "setattr", exc |-> NoExc, val |-> PyNone,
                   args |-> [value |-> v]]
        /\ lastUid' = NoUid
        /\ UNCHANGED <<db, lists, origin, dbLog>>

Next ==
    \/ OnCreate
    \/ OnLoad
    \/ ChildComponents
    \/ MutateReturned
    \/ UniqueId
    \/ Dict
    \/ CreateValidationJob
    \/ ScheduleJobs
    \/ MakeUniqueId
    \/ AssignVersion

Spec == Init /\ [][Next]_vars

----------------------------------------------------------------------------
(* The identity string over many type_ids and identifiers *)

InitIds ==
    /\ Init
    /\ comp = Obj("Model", [identifier |-> PyStr("clf1"), version |-> PyNone])
    /\ db = [jobs |-> <<>>]

NextIds ==
    \E cls \in {"Component", "Model"} : MakeUniqueIdOn(cls, ShortStrs, Strs)

SpecIds == InitIds /\ [][NextIds]_vars

----------------------------------------------------------------------------
(* The coordinator (DB): it registers an instance that application code   *)
(* constructed, assigning its version and calling on_create, or it hands  *)
(* out an instance it rehydrated from the store, calling on_load.         *)

InitLifecycle ==
    /\ InitObject
    /\ origin \in {"constructed", "deserialized"}
    /\ origin = "deserialized" => GetAttrDefault(comp, "version", PyNone) # PyNone

CanLoadUnregistered == "on_load" \notin {dbLog[k] : k \in DOMAIN dbLog}

CanCreate == origin = "constructed" /\ dbLog = <<>>

CanLoad == origin = "deserialized" /\ dbLog = <<>>

DbAdd ==
    /\ CanCreate
    /\ \E v \in {0, 1} :
        LET versioned ==
                [comp EXCEPT !.attrs = ("version" :> PyInt(v)) @@ comp.attrs]
            eff == on_create(versioned, db)
        IN  /\ comp' = eff.self
            /\ db' = eff.db
            /\ ret' = [op |-> "on_create", exc |-> eff.exc, val |-> eff.val]
    /\ dbLog' = Append(dbLog, "on_create")
    /\ lastUid' = NoUid
    /\ UNCHANGED <<lists, origin>>

DbLoad ==
    /\ CanLoad
    /\ LET eff == on_load(comp, db) IN
        /\ comp' = eff.self
        /\ db' = eff.db
        /\ ret' = [op |-> "on_load", exc |-> eff.exc, val |-> eff.val]
    /\ dbLog' = Append(dbLog, "on_load")
    /\ UNCHANGED <<lists, lastUid, origin>>

NextLifecycle ==
    \/ DbAdd
    \/ DbLoad
    \/ UniqueId
    \/ Dict
    \/ ScheduleJobs

SpecLifecycle == InitLifecycle /\ [][NextLifecycle]_vars

----------------------------------------------------------------------------
(* What the claims read off a state *)

VersionOf(c) == GetAttrDefault(c, "version", PyNone)

HasIdentity(c) == HasAttr(c, "type_id") /\ HasAttr(c, "identifier")

NoSlash(s) == \A k \in 1..Len(s) : SubSeq(s, k, k) # "/"

RECURSIVE HoldsDataclass(_)
HoldsDataclass(v) ==
    CASE v.kind = "dataclass" -> TRUE
      [] v.kind = "list" -> \E k \in DOMAIN v.items : HoldsDataclass(v.items[k])
      [] v.kind = "dict" -> \E k \in DOMAIN v.map : HoldsDataclass(v.map[k])
      [] OTHER -> FALSE

Count(log, hook) == Cardinality({k \in DOMAIN log : log[k] = hook})

----------------------------------------------------------------------------
C2_MakeUniqueIdAgrees ==
    ( /\ ret.op = "make_unique_id"
      /\ HasIdentity(comp)
      /\ VersionOf(comp).kind = "int"
      /\ ret.args.type_id = ClassDecl[comp.cls].type_id
      /\ PyStr(ret.args.identifier) = comp.attrs.identifier
      /\ ret.args.version = VersionOf(comp).i )
    => /\ ret.exc = NoExc
       /\ unique_id(comp).exc = NoExc
       /\ ret.val = unique_id(comp).val

C2_Witness ==
    /\ ret.op = "make_unique_id"
    /\ ret.args.cls = "Component"
    /\ comp = Obj("Model", [identifier |-> PyStr("a/b"),
                            version |-> PyInt(MaxVersion)])
    /\ ret.args = [cls |-> "Component", type_id |-> "model",
                   identifier |-> "a/b", version |-> MaxVersion]
    /\ ret.val = unique_id(comp).val

(* C3: on a component with identifier i, create_validation_job returns the *)
(* descriptor (component_identifier = i, method_name = 'predict', type_id  *)
(* = 'model', kwargs = {distributed: False, validation_set, metrics}) with *)
(* both arguments passed through, and changes neither the component nor    *)
(* the database.                                                           *)
C3_ValidationJob ==
    [][ret'.op = "create_validation_job" /\ HasAttr(comp, "identifier") =>
          /\ ret'.exc = NoExc
          /\ ret'.val = [kind |-> "ComponentJob",
                         component_identifier |-> comp.attrs.identifier,
                         method_name |-> "predict",
                         type_id |-> "model",
                         kwargs |-> [distributed |-> FALSE,
                                     validation_set |-> ret'.args.validation_set,
                                     metrics |-> ret'.args.metrics]]
          /\ comp' = comp
          /\ db' = db
          /\ lists' = lists]_vars

C3_Witness ==
    /\ ret.op = "create_validation_job"
    /\ comp = Obj("LearningTask", [identifier |-> PyStr("clf1")])
    /\ ret.args = [validation_set |-> PyStr("my_dataset"),
                   metrics |-> <<"accuracy", "f1">>]
    /\ ret.val.type_id = "model"
    /\ ret.val.kwargs.metrics = <<"accuracy", "f1">>

(* C4: the default schedule_jobs returns an empty sequence whatever its    *)
(* arguments, and the component, the database and the dependencies are as  *)
(* they were: no job is submitted.                                         *)
C4_ScheduleJobsNoOp ==
    [][ret'.op = "schedule_jobs" =>
          /\ ret'.exc = NoExc
          /\ ret'.val = PyList(<<>>)
          /\ comp' = comp
          /\ db' = db
          /\ ret'.dependencies = ret'.args.dependencies
          /\ lists' = lists]_vars

C4_Witness ==
    /\ ret.op = "schedule_jobs"
    /\ ret.args = [dependencies |-> <<"job0", "job1">>,
                   distributed |-> TRUE, verbose |-> TRUE]
    /\ db.jobs = <<"job0">>
    /\ ret.val = PyList(<<>>)

C8_ChildComponentsFreshEmpty ==
    [][ret'.op = "child_components" =>
          /\ ret'.exc = NoExc
          /\ ret'.val.kind = "listref"
          /\ ret'.val.id \notin DOMAIN lists
          /\ ret'.val.id \in DOMAIN lists'
          /\ lists'[ret'.val.id] = <<>>
          /\ \A k \in DOMAIN lists : lists'[k] = lists[k]
          /\ comp' = comp]_vars

C8_Witness ==
    /\ ret.op = "child_components"
    /\ comp.cls = "Component"
    /\ VersionOf(comp) # PyNone
    /\ ret.val = ListRef(2)
    /\ lists[1] = <<"x">>
    /\ lists[2] = <<>>

C10_MakeUniqueIdInjective ==
    ( /\ ret.op = "make_unique_id"
      /\ NoSlash(ret.args.type_id)
      /\ NoSlash(ret.args.identifier) )
    => \A t2 \in ShortStrs, i2 \in Strs, v2 \in Versions :
          ( /\ NoSlash(t2)
            /\ NoSlash(i2)
            /\ make_unique_id(ret.args.cls, PyStr(t2), PyStr(i2),
                              PyInt(v2)).val = ret.val )
          => /\ t2 = ret.args.type_id
             /\ i2 = ret.args.identifier
             /\ v2 = ret.args.version

C10_Witness ==
    /\ ret.op = "make_unique_id"
    /\ ret.args.type_id = "a"
    /\ ret.args.identifier = "1"
    /\ ret.args.version = -1
    /\ ret.val = PyStr("a/1/-1")

====
